---- MODULE Spec2Model ----
(***************************************************************************)
(* go-npm-run: discovery of package.json manifests by a concurrent         *)
(* directory walk, and concurrent extraction of their scripts, with       *)
(* workspace expansion (in-manifest "workspaces" and pnpm-workspace.yaml). *)
(* Modelled from src/unnamed/part_002, the latest iteration of the engine. *)
(*                                                                         *)
(* Paths are sequences of path components relative to the search root      *)
(* (<<>> is the search root); a glob pattern is a sequence of components   *)
(* in which "*" is the wildcard component, "." and ".." are the relative   *)
(* components and a leading "!" marks a pnpm exclusion.                    *)
(***************************************************************************)
EXTENDS Integers, Sequences, FiniteSets, TLC

VARIABLES
    fs,           \* the directory tree the run works on (never changes)
    mainpc,       \* position of the main goroutine
    wtasks,       \* findPackageJSON goroutines, in spawn order
    wgWalk,       \* counter of the WaitGroup of the walk
    pathsChan,    \* buffered channel of manifest paths
    pathsClosed,  \* pathsChan has been closed
    filepaths,    \* paths collected by the walk
    etasks,       \* extractScriptsFromPackageJSON goroutines, in spawn order
    dispatched,   \* number of filepaths the dispatch loop has gone through
    wgExtract,    \* counter of the WaitGroup of the extraction
    scriptsChan,  \* buffered channel of script batches
    scriptsClosed,\* scriptsChan has been closed
    allScripts,   \* the catalog collected by the extraction
    located,      \* result of a direct call of locatePnpmWorkspaces
    previous,     \* the result of the first run, when a build or a call is made twice
    stdout,       \* what main and runScript have printed
    exitCode,     \* <<>> while the process runs, <<c>> once it has ended with status c
    find,         \* the call of fuzzyfinder.Find and what it returned
    run,          \* the call of runScript: inferPackageManager and the child process
    sync,         \* a call of the synchronous extractScriptsFromPackageJSON of the earlier variants
    panicked      \* a goroutine has panicked (send on closed channel, ...)

walkVars == <<wtasks, wgWalk, pathsChan, pathsClosed, filepaths>>

extractVars == <<etasks, dispatched, wgExtract, scriptsChan, scriptsClosed, allScripts>>

mainVars == <<stdout, exitCode, find, run>>

vars == <<fs, mainpc, walkVars, extractVars, located, previous, sync, mainVars, panicked>>

----------------------------------------------------------------------------
(* Bounds of the model *)

\* largest number of directories below the search root in a generated tree
MaxDirs == 2
\* largest number of directories of a generated tree that cannot be listed
MaxUnreadable == 1
\* number of package directories in the wide tree: one more than pathsChan holds
WideDirs == 101

\* capacity of pathsChan: make(chan string, 100)
PathsChanCap == 100

----------------------------------------------------------------------------
(* Paths *)

Last(s) == s[Len(s)]

Front(s) == SubSeq(s, 1, Len(s) - 1)

\* filepath.Join(dir, name) for a single clean component
Join(dir, name) == Append(dir, name)

\* filepath.Dir of a path to a file
Dir(path) == Front(path)

PackageJSON(dir) == Join(dir, "package.json")

PnpmWorkspaceYAML(dir) == Join(dir, "pnpm-workspace.yaml")

\* names the walk never descends into
ignoredDirs ==
    { ".circleci", ".github", ".git", ".hg", ".svn", ".idea", ".vscode",
      "node_modules", "__tests__", "__test__", "__specs__", "__spec__",
      "__mocks__", "__mock__", "__snapshots__", "__fixtures__" }

----------------------------------------------------------------------------
(* The file system: fs.dirs the directories, fs.manifest the content of    *)
(* each existing package.json (by directory), fs.pnpm the patterns of each *)
(* existing pnpm-workspace.yaml (by directory), fs.other further plain     *)
(* files, fs.unreadable the directories that cannot be opened or listed,   *)
(* fs.order the order in which directory listings return names.            *)

\* os.Stat(path) succeeds
Stat(path) ==
    \/ path \in fs.dirs
    \/ path \in fs.other
    \/ /\ Len(path) > 0
       /\ \/ Last(path) = "package.json" /\ Front(path) \in DOMAIN fs.manifest
          \/ Last(path) = "pnpm-workspace.yaml" /\ Front(path) \in DOMAIN fs.pnpm

IsDir(path) == path \in fs.dirs

\* dir.Readdir(-1): the names of the entries of dir, in directory order
Readdir(dir) == SelectSeq(fs.order, LAMBDA n : Stat(Join(dir, n)))

\* os.Open(path) and dir.Readdir(-1) both succeed
CanList(dir) == dir \in fs.dirs /\ dir \notin fs.unreadable

----------------------------------------------------------------------------
(* ManifestLocator: findProjectRootPackageJSONPathsConcurrent and          *)
(* findPackageJSON.  A walk task is [path, pc, i]: the directory it walks, *)
(* its position, and the index of the next entry of its listing.           *)

WalkTask(path) == [path |-> path, pc |-> "open", i |-> 1]

\* wg.Done(): panics when the counter would become negative
WgDone(wg) ==
    IF wg = 0
    THEN panicked' = TRUE /\ UNCHANGED wg
    ELSE wg' = wg - 1 /\ UNCHANGED panicked

\* ignoredDirs[entry.Name()]
Ignored(name) == name \in ignoredDirs

\* the ignore set is not consulted
DescendIntoAny(dir, name) == IsDir(Join(dir, name))

\* entry.IsDir() && !ignoredDirs[entry.Name()]
Descend(dir, name) == IsDir(Join(dir, name)) /\ ~Ignored(name)

\* wg.Add(1); go findPackageJSON(rootPath, pathsChan, &wg); go func() { wg.Wait(); close(pathsChan) }()
WalkStart ==
    /\ ~panicked
    /\ mainpc = "start"
    /\ wgWalk' = wgWalk + 1
    /\ wtasks' = <<WalkTask(<<>>)>>
    /\ mainpc' = "collect"
    /\ UNCHANGED <<fs, pathsChan, pathsClosed, filepaths, panicked, extractVars, located, previous, sync, mainVars>>

\* a directory that cannot be listed ends its task without wg.Done()
WalkOpenNoDone(k) ==
    /\ ~panicked
    /\ wtasks[k].pc = "open"
    /\ wtasks' = [wtasks EXCEPT ![k].pc =
                     IF ~CanList(wtasks[k].path) THEN "done"
                     ELSE IF Stat(PackageJSON(wtasks[k].path)) THEN "sendOwn"
                     ELSE "loop"]
    /\ UNCHANGED <<fs, mainpc, wgWalk, pathsChan, pathsClosed, filepaths, panicked, extractVars, located, previous, sync, mainVars>>

\* the directory's own package.json is not looked for
WalkOpenNoStat(k) ==
    /\ ~panicked
    /\ wtasks[k].pc = "open"
    /\ wtasks' = [wtasks EXCEPT ![k].pc =
                     IF ~CanList(wtasks[k].path) THEN "ret" ELSE "loop"]
    /\ UNCHANGED <<fs, mainpc, wgWalk, pathsChan, pathsClosed, filepaths, panicked, extractVars, located, previous, sync, mainVars>>

\* os.Open, dir.Readdir and the os.Stat of the directory's own package.json
WalkOpen(k) ==
    /\ ~panicked
    /\ wtasks[k].pc = "open"
    /\ wtasks' = [wtasks EXCEPT ![k].pc =
                     IF ~CanList(wtasks[k].path) THEN "ret"
                     ELSE IF Stat(PackageJSON(wtasks[k].path)) THEN "sendOwn"
                     ELSE "loop"]
    /\ UNCHANGED <<fs, mainpc, wgWalk, pathsChan, pathsClosed, filepaths, panicked, extractVars, located, previous, sync, mainVars>>

\* a send on pathsChan: blocks while the buffer is full, panics once closed
SendPath(path) ==
    IF pathsClosed
    THEN panicked' = TRUE /\ UNCHANGED pathsChan
    ELSE /\ Len(pathsChan) < PathsChanCap
         /\ pathsChan' = Append(pathsChan, path)
         /\ UNCHANGED panicked

\* the return after the send is missing: the walk goes on below the package
WalkSendOwnNoReturn(k) ==
    /\ ~panicked
    /\ wtasks[k].pc = "sendOwn"
    /\ SendPath(PackageJSON(wtasks[k].path))
    /\ wtasks' = [wtasks EXCEPT ![k].pc = "loop"]
    /\ UNCHANGED <<fs, mainpc, wgWalk, pathsClosed, filepaths, extractVars, located, previous, sync, mainVars>>

\* paths <- dirPackageJSONPath; return
WalkSendOwn(k) ==
    /\ ~panicked
    /\ wtasks[k].pc = "sendOwn"
    /\ SendPath(PackageJSON(wtasks[k].path))
    /\ wtasks' = [wtasks EXCEPT ![k].pc = "ret"]
    /\ UNCHANGED <<fs, mainpc, wgWalk, pathsClosed, filepaths, extractVars, located, previous, sync, mainVars>>

\* one iteration of the loop over the entries, up to the send or the spawn
WalkEntry(k) ==
    LET t == wtasks[k]
        entries == Readdir(t.path)
    IN  /\ ~panicked
        /\ t.pc = "loop"
        /\ IF t.i > Len(entries)
           THEN /\ wtasks' = [wtasks EXCEPT ![k].pc = "ret"]
                /\ UNCHANGED wgWalk
           ELSE IF ~Descend(t.path, entries[t.i])
           THEN /\ wtasks' = [wtasks EXCEPT ![k].i = t.i + 1]
                /\ UNCHANGED wgWalk
           ELSE IF Stat(PackageJSON(Join(t.path, entries[t.i])))
           THEN /\ wtasks' = [wtasks EXCEPT ![k].pc = "sendChild"]
                /\ UNCHANGED wgWalk
           ELSE /\ wgWalk' = wgWalk + 1
                /\ wtasks' = Append([wtasks EXCEPT ![k].i = t.i + 1],
                                    WalkTask(Join(t.path, entries[t.i])))
        /\ UNCHANGED <<fs, mainpc, pathsChan, pathsClosed, filepaths, panicked, extractVars, located, previous, sync, mainVars>>

\* paths <- packageJsonPath, for the entry the loop is at
WalkSendChild(k) ==
    LET t == wtasks[k]
    IN  /\ ~panicked
        /\ t.pc = "sendChild"
        /\ SendPath(PackageJSON(Join(t.path, Readdir(t.path)[t.i])))
        /\ wtasks' = [wtasks EXCEPT ![k].pc = "loop", ![k].i = t.i + 1]
        /\ UNCHANGED <<fs, mainpc, wgWalk, pathsClosed, filepaths, extractVars, located, previous, sync, mainVars>>

\* defer wg.Done()
WalkTaskDone(k) ==
    /\ ~panicked
    /\ wtasks[k].pc = "ret"
    /\ WgDone(wgWalk)
    /\ wtasks' = [wtasks EXCEPT ![k].pc = "done"]
    /\ UNCHANGED <<fs, mainpc, pathsChan, pathsClosed, filepaths, extractVars, located, previous, sync, mainVars>>

\* close(pathsChan) without waiting for the counter
WalkWatcherCloseEarly ==
    /\ ~panicked
    /\ mainpc = "collect"
    /\ ~pathsClosed
    /\ pathsClosed' = TRUE
    /\ UNCHANGED <<fs, mainpc, wtasks, wgWalk, pathsChan, filepaths, panicked, extractVars, located, previous, sync, mainVars>>

\* wg.Wait() has returned: close(pathsChan)
WalkWatcherClose ==
    /\ ~panicked
    /\ mainpc = "collect"
    /\ ~pathsClosed
    /\ wgWalk = 0
    /\ pathsClosed' = TRUE
    /\ UNCHANGED <<fs, mainpc, wtasks, wgWalk, pathsChan, filepaths, panicked, extractVars, located, previous, sync, mainVars>>

\* the paths are collected only once the channel has been closed
WalkCollectAfterClose ==
    /\ ~panicked
    /\ mainpc = "collect"
    /\ pathsClosed
    /\ Len(pathsChan) > 0
    /\ filepaths' = Append(filepaths, Head(pathsChan))
    /\ pathsChan' = Tail(pathsChan)
    /\ UNCHANGED <<fs, mainpc, wtasks, wgWalk, pathsClosed, panicked, extractVars, located, previous, sync, mainVars>>

\* for path := range pathsChan { filepaths = append(filepaths, path) }
WalkCollect ==
    /\ ~panicked
    /\ mainpc = "collect"
    /\ Len(pathsChan) > 0
    /\ filepaths' = Append(filepaths, Head(pathsChan))
    /\ pathsChan' = Tail(pathsChan)
    /\ UNCHANGED <<fs, mainpc, wtasks, wgWalk, pathsClosed, panicked, extractVars, located, previous, sync, mainVars>>

\* the range loop ends on the closed, drained channel: return filepaths
WalkReturn ==
    /\ ~panicked
    /\ mainpc = "collect"
    /\ pathsClosed
    /\ Len(pathsChan) = 0
    /\ mainpc' = "walked"
    /\ UNCHANGED <<fs, wtasks, wgWalk, pathsChan, pathsClosed, filepaths, panicked, extractVars, located, previous, sync, mainVars>>

WalkNext ==
    \/ WalkStart
    \/ \E k \in DOMAIN wtasks : WalkOpen(k)
    \/ \E k \in DOMAIN wtasks : WalkSendOwn(k)
    \/ \E k \in DOMAIN wtasks : WalkEntry(k)
    \/ \E k \in DOMAIN wtasks : WalkSendChild(k)
    \/ \E k \in DOMAIN wtasks : WalkTaskDone(k)
    \/ WalkWatcherClose
    \/ WalkCollect
    \/ WalkReturn

----------------------------------------------------------------------------
(* Manifest documents.  json.Unmarshal into map[string]any yields values   *)
(* whose dynamic type is one of: nil, string, float64, []interface {} and  *)
(* map[string]interface {}; t is that dynamic type.  A string holds a name *)
(* or command (s) or a pattern (p, a sequence of components).              *)

JNil == [t |-> "nil"]

JString(s) == [t |-> "string", s |-> s]

JPattern(p) == [t |-> "string", p |-> p]

JNumber == [t |-> "float64"]

JArray(a) == [t |-> "[]interface {}", a |-> a]

JObject(m) == [t |-> "map[string]interface {}", m |-> m]

\* m[key] of a Go map: the zero value (nil) when the key is missing
Lookup(m, key) == IF key \in DOMAIN m THEN m[key] ELSE JNil

\* v.(T): whether the type assertion to T succeeds
IsType(v, T) == v.t = T

----------------------------------------------------------------------------
(* Path and pattern functions of path/filepath and strings *)

\* filepath.Clean of dir followed by the components of rel
RECURSIVE CleanInto(_, _)
CleanInto(acc, rel) ==
    IF rel = <<>> THEN acc
    ELSE LET c == Head(rel)
         IN  IF c = "." THEN CleanInto(acc, Tail(rel))
             ELSE IF c = ".."
             THEN IF acc # <<>> /\ Last(acc) # ".."
                  THEN CleanInto(Front(acc), Tail(rel))
                  ELSE CleanInto(Append(acc, ".."), Tail(rel))
             ELSE CleanInto(Append(acc, c), Tail(rel))

\* a pattern that keeps its leading "!": the "!" is part of the first name
Literal(pattern) ==
    IF pattern # <<>> /\ Head(pattern) = "!"
    THEN IF Len(pattern) = 1 THEN pattern
         ELSE <<"!" \o pattern[2]>> \o SubSeq(pattern, 3, Len(pattern))
    ELSE pattern

\* filepath.Join(dir, pattern)
JoinPattern(dir, pattern) == CleanInto(dir, Literal(pattern))

\* strings.HasPrefix(trimmed, "!")
HasBang(pattern) == pattern # <<>> /\ Head(pattern) = "!"

\* strings.TrimPrefix(trimmed, "!")
TrimBang(pattern) == IF HasBang(pattern) THEN Tail(pattern) ELSE pattern

\* a component holding one of the glob metacharacters * ? [
IsMeta(c) == c \in {"*", "["}

\* strings.ContainsAny(workspacePattern, "*?[")
IsGlob(pattern) == \E i \in DOMAIN pattern : IsMeta(pattern[i])

\* filepath.Match(c, name) for one component; "[" is an unterminated class
MatchName(c, name) == c = "*" \/ c = name

\* filepath.Glob reports ErrBadPattern
GlobErr(pattern) == \E i \in DOMAIN pattern : pattern[i] = "["

\* every path that exists in the file system
AllPaths ==
    fs.dirs \cup fs.other
    \cup {PackageJSON(d) : d \in DOMAIN fs.manifest}
    \cup {PnpmWorkspaceYAML(d) : d \in DOMAIN fs.pnpm}

\* filepath.Glob(pattern): the existing paths matching pattern component by
\* component; from the first metacharacter on, the directories are listed
GlobSet(pattern) ==
    {q \in AllPaths :
        /\ Len(q) = Len(pattern)
        /\ \A i \in DOMAIN pattern :
              /\ MatchName(pattern[i], q[i])
              /\ (\E j \in 1..i : IsMeta(pattern[j])) => CanList(SubSeq(q, 1, i - 1))}

\* position of a name in the order of the file system
NameIdx(n) == CHOOSE i \in DOMAIN fs.order : fs.order[i] = n

\* p sorts before q (paths of the same length)
RECURSIVE PathLess(_, _)
PathLess(p, q) ==
    /\ p # <<>>
    /\ \/ NameIdx(Head(p)) < NameIdx(Head(q))
       \/ Head(p) = Head(q) /\ PathLess(Tail(p), Tail(q))

\* the sorted slice filepath.Glob returns
Sorted(S) ==
    [i \in 1..Cardinality(S) |->
        CHOOSE p \in S : Cardinality({q \in S : PathLess(q, p)}) = i - 1]

Glob(pattern) == Sorted(GlobSet(pattern))

Range(seq) == {seq[i] : i \in DOMAIN seq}

----------------------------------------------------------------------------
(* WorkspaceGlobResolver: locatePnpmWorkspaces.  The result is             *)
(* [err, result]: whether an error is returned, and the set of matches     *)
(* (the slice is built by ranging over the map matchesSet).                *)

\* the patterns without "!", joined to the root
IncludePatterns(root, packages) ==
    LET inc == SelectSeq(packages, LAMBDA x : ~HasBang(x))
    IN  [i \in DOMAIN inc |-> JoinPattern(root, inc[i])]

\* the patterns with "!", the prefix removed, joined to the root
ExcludePatterns(root, packages) ==
    LET exc == SelectSeq(packages, LAMBDA x : HasBang(x))
    IN  [i \in DOMAIN exc |-> JoinPattern(root, TrimBang(exc[i]))]

\* matchesSet after the loop over the include patterns
IncludeMatches(patterns) == UNION {GlobSet(x) : x \in Range(patterns)}

\* the exclude patterns are not applied
ExcludeNothing(matches, patterns) == matches

\* delete(matchesSet, match) for every match of every exclude pattern
ExcludeMatches(matches, patterns) ==
    matches \ UNION {GlobSet(x) : x \in Range(patterns)}

locatePnpmWorkspaces(pnpmWorkspaceRoot) ==
    IF pnpmWorkspaceRoot \notin DOMAIN fs.pnpm \/ ~fs.pnpm[pnpmWorkspaceRoot].ok
    THEN [err |-> TRUE, result |-> {}]
    ELSE LET packages == fs.pnpm[pnpmWorkspaceRoot].packages
             inc == IncludePatterns(pnpmWorkspaceRoot, packages)
             exc == ExcludePatterns(pnpmWorkspaceRoot, packages)
         IN  IF \E x \in Range(inc) \cup Range(exc) : GlobErr(x)
             THEN [err |-> TRUE, result |-> {}]
             ELSE [err |-> FALSE,
                   result |-> ExcludeMatches(IncludeMatches(inc), exc)]

----------------------------------------------------------------------------
(* ScriptExtractor: extractScriptsFromPackageJSON.  An extraction task is  *)
(* [path, isLeaf, pc, batch, todo, pnpmTodo]: the manifest path, the leaf  *)
(* flag, its position, the scripts it read, the workspace manifests still  *)
(* to dispatch from the workspaces field (in order) and from               *)
(* pnpm-workspace.yaml (ranged over in any order).                         *)

ExtractTask(filePath, isLeaf) ==
    [path |-> filePath, isLeaf |-> isLeaf, pc |-> "start",
     batch |-> <<>>, todo |-> <<>>, pnpmTodo |-> {}]

NpmScript(packageName, name, command, filePath) ==
    [PackageName |-> packageName, ScriptName |-> name,
     Command |-> command, AbsolutePath |-> filePath]

\* the errors of io.ReadAll and json.Unmarshal are not looked at
CanParseAny(filePath) ==
    /\ Len(filePath) > 0
    /\ Last(filePath) = "package.json"
    /\ Dir(filePath) \in DOMAIN fs.manifest

\* os.Open, io.ReadAll and json.Unmarshal of the manifest all succeed
CanParse(filePath) ==
    /\ Len(filePath) > 0
    /\ Last(filePath) = "package.json"
    /\ Dir(filePath) \in DOMAIN fs.manifest
    /\ fs.manifest[Dir(filePath)].ok

\* the orders in which a range over a map with key set S can visit the keys
Perms(S) ==
    {f \in [1..Cardinality(S) -> S] : \A x \in S : \E i \in DOMAIN f : f[i] = x}

\* packageName := "unknown"; if name, ok := packageJSON["name"].(string); ok { packageName = name }
PackageNameOf(packageJSON) ==
    IF IsType(Lookup(packageJSON, "name"), "string")
    THEN Lookup(packageJSON, "name").s
    ELSE "unknown"

\* the range over scriptsMap stops one key early
ScriptsOfAllButLast(filePath, packageJSON, keys) ==
    LET scriptsMap == Lookup(packageJSON, "scripts").m
    IN  [i \in 1..(Len(keys) - 1) |->
            NpmScript(PackageNameOf(packageJSON), keys[i], scriptsMap[keys[i]].s, filePath)]

\* the scripts appended while ranging over scriptsMap in the given key order
ScriptsOf(filePath, packageJSON, keys) ==
    LET scriptsMap == Lookup(packageJSON, "scripts").m
    IN  [i \in DOMAIN keys |->
            NpmScript(PackageNameOf(packageJSON), keys[i], scriptsMap[keys[i]].s, filePath)]

\* the switch on packageJSON["workspaces"].(type)
WorkspacePatterns(packageJSON) ==
    LET workspaces == Lookup(packageJSON, "workspaces")
    IN  IF IsType(workspaces, "[]string")
        THEN workspaces.a
        ELSE IF IsType(workspaces, "map[string]interface {}")
        THEN LET packagesArray == Lookup(workspaces.m, "packages")
             IN  IF IsType(packagesArray, "[]interface {}")
                 THEN LET strs == SelectSeq(packagesArray.a, LAMBDA x : IsType(x, "string"))
                      IN  [i \in DOMAIN strs |-> strs[i].p]
                 ELSE <<>>
        ELSE <<>>

\* the manifests one workspace pattern makes the loop dispatch, in order,
\* given the knownWorkspaces so far
PatternCandidates(dir, workspacePattern) ==
    LET workspacePath == JoinPattern(dir, workspacePattern)
    IN  IF IsGlob(workspacePattern)
        THEN IF GlobErr(workspacePath) THEN <<>>
             ELSE LET matches == Glob(workspacePath)
                  IN  [i \in DOMAIN matches |-> PackageJSON(matches[i])]
        ELSE <<PackageJSON(workspacePath)>>

\* knownWorkspaces is not consulted
RECURSIVE WorkspaceMembersNoDedup(_, _, _)
WorkspaceMembersNoDedup(dir, workspacePatterns, knownWorkspaces) ==
    IF workspacePatterns = <<>> THEN <<>>
    ELSE SelectSeq(PatternCandidates(dir, Head(workspacePatterns)), Stat)
         \o WorkspaceMembersNoDedup(dir, Tail(workspacePatterns), knownWorkspaces)

\* the loop over workspacePatterns: every candidate not yet in
\* knownWorkspaces is recorded, and dispatched when its package.json exists
RECURSIVE WorkspaceMembers(_, _, _)
WorkspaceMembers(dir, workspacePatterns, knownWorkspaces) ==
    IF workspacePatterns = <<>> THEN <<>>
    ELSE LET cands == PatternCandidates(dir, Head(workspacePatterns))
             fresh == SelectSeq(cands, LAMBDA x : x \notin knownWorkspaces)
         IN  SelectSeq(fresh, Stat)
             \o WorkspaceMembers(dir, Tail(workspacePatterns),
                                 knownWorkspaces \cup Range(cands))

\* the manifests dispatched from the sibling pnpm-workspace.yaml
PnpmMembers(filePath) ==
    LET dirname == Dir(filePath)
        found == locatePnpmWorkspaces(dirname)
    IN  IF Stat(PnpmWorkspaceYAML(dirname)) /\ ~found.err
        THEN {x \in {PackageJSON(match) : match \in found.result} :
                 x # filePath /\ Stat(x)}
        ELSE {}

\* the leaf flag is not looked at
AfterScriptsExpand(t) == "expand"

\* where a task goes on after the scripts: if isLeaf { return }
AfterScripts(t) == IF t.isLeaf THEN "ret" ELSE "expand"

\* from os.Open to the end of the range over scriptsMap
ExtractParse(k) ==
    LET t == etasks[k]
        packageJSON == fs.manifest[Dir(t.path)].doc
        scripts == Lookup(packageJSON, "scripts")
    IN  /\ ~panicked
        /\ t.pc = "start"
        /\ IF ~CanParse(t.path)
           THEN /\ etasks' = [etasks EXCEPT ![k].pc = "ret"]
                /\ UNCHANGED panicked
           ELSE IF ~IsType(scripts, "map[string]interface {}")
           THEN /\ etasks' = [etasks EXCEPT ![k].pc = AfterScripts(t)]
                /\ UNCHANGED panicked
           ELSE IF \E key \in DOMAIN scripts.m : ~IsType(scripts.m[key], "string")
           THEN \* command.(string) panics
                /\ panicked' = TRUE
                /\ UNCHANGED etasks
           ELSE /\ \E keys \in Perms(DOMAIN scripts.m) :
                      etasks' = [etasks EXCEPT
                                    ![k].batch = ScriptsOf(t.path, packageJSON, keys),
                                    ![k].pc = "send"]
                /\ UNCHANGED panicked
        /\ UNCHANGED <<fs, mainpc, walkVars, dispatched, wgExtract, scriptsChan,
                       scriptsClosed, allScripts, located, previous, sync, mainVars>>

\* scriptsChan <- scripts: the channel holds len(filepaths) batches
ExtractSend(k) ==
    LET t == etasks[k]
    IN  /\ ~panicked
        /\ t.pc = "send"
        /\ IF scriptsClosed
           THEN panicked' = TRUE /\ UNCHANGED scriptsChan
           ELSE /\ Len(scriptsChan) < Len(filepaths)
                /\ scriptsChan' = Append(scriptsChan, t.batch)
                /\ UNCHANGED panicked
        /\ etasks' = [etasks EXCEPT ![k].pc = AfterScripts(t)]
        /\ UNCHANGED <<fs, mainpc, walkVars, dispatched, wgExtract,
                       scriptsClosed, allScripts, located, previous, sync, mainVars>>

\* the workspace patterns and the pnpm workspace of a top-level manifest
ExtractExpand(k) ==
    LET t == etasks[k]
        packageJSON == fs.manifest[Dir(t.path)].doc
    IN  /\ ~panicked
        /\ t.pc = "expand"
        /\ \E todo \in {WorkspaceMembers(Dir(t.path), WorkspacePatterns(packageJSON), {})} :
           \E pnpmTodo \in {PnpmMembers(t.path)} :
              etasks' = [etasks EXCEPT
                           ![k].todo = todo,
                           ![k].pnpmTodo = pnpmTodo,
                           ![k].pc = IF todo = <<>> /\ pnpmTodo = {} THEN "ret" ELSE "spawn"]
        /\ UNCHANGED <<fs, mainpc, walkVars, dispatched, wgExtract, scriptsChan,
                       scriptsClosed, allScripts, located, previous, sync, mainVars, panicked>>

\* the goroutine is started without wg.Add(1)
ExtractSpawnNoAdd(k) ==
    LET t == etasks[k]
    IN  /\ ~panicked
        /\ t.pc = "spawn"
        /\ t.todo # <<>>
        /\ etasks' = Append([etasks EXCEPT
                               ![k].todo = Tail(t.todo),
                               ![k].pc = IF Tail(t.todo) = <<>> /\ t.pnpmTodo = {}
                                         THEN "ret" ELSE "spawn"],
                            ExtractTask(Head(t.todo), TRUE))
        /\ UNCHANGED <<fs, mainpc, walkVars, dispatched, wgExtract, scriptsChan,
                       scriptsClosed, allScripts, located, previous, sync, mainVars, panicked>>

\* wg.Add(1); go extractScriptsFromPackageJSON(workspacePackageJSONPath, true, scriptsChan, wg)
\* in the loop over the workspace patterns
ExtractSpawn(k) ==
    LET t == etasks[k]
    IN  /\ ~panicked
        /\ t.pc = "spawn"
        /\ t.todo # <<>>
        /\ wgExtract' = wgExtract + 1
        /\ etasks' = Append([etasks EXCEPT
                               ![k].todo = Tail(t.todo),
                               ![k].pc = IF Tail(t.todo) = <<>> /\ t.pnpmTodo = {}
                                         THEN "ret" ELSE "spawn"],
                            ExtractTask(Head(t.todo), TRUE))
        /\ UNCHANGED <<fs, mainpc, walkVars, dispatched, scriptsChan,
                       scriptsClosed, allScripts, located, previous, sync, mainVars, panicked>>

\* the same dispatch in the loop over the result of locatePnpmWorkspaces
ExtractSpawnPnpm(k) ==
    LET t == etasks[k]
    IN  /\ ~panicked
        /\ t.pc = "spawn"
        /\ t.todo = <<>>
        /\ \E m \in t.pnpmTodo :
              /\ wgExtract' = wgExtract + 1
              /\ etasks' = Append([etasks EXCEPT
                                     ![k].pnpmTodo = t.pnpmTodo \ {m},
                                     ![k].pc = IF t.pnpmTodo = {m} THEN "ret" ELSE "spawn"],
                                  ExtractTask(m, TRUE))
        /\ UNCHANGED <<fs, mainpc, walkVars, dispatched, scriptsChan,
                       scriptsClosed, allScripts, located, previous, sync, mainVars, panicked>>

\* defer wg.Done()
ExtractTaskDone(k) ==
    /\ ~panicked
    /\ etasks[k].pc = "ret"
    /\ WgDone(wgExtract)
    /\ etasks' = [etasks EXCEPT ![k].pc = "done"]
    /\ UNCHANGED <<fs, mainpc, walkVars, dispatched, scriptsChan,
                   scriptsClosed, allScripts, located, previous, sync, mainVars>>

----------------------------------------------------------------------------
(* CatalogBuilder: main and extractScriptsFromPackageJSONsConcurrent *)

\* the check of the walk's result is skipped
MainCheckFoundAlways ==
    /\ ~panicked
    /\ mainpc = "walked"
    /\ mainpc' = "dispatch"
    /\ UNCHANGED <<fs, walkVars, extractVars, located, previous, sync, mainVars, panicked>>

\* if len(projectRootPackageJsons) == 0 {
\*     fmt.Println("No package.json files found."); os.Exit(1) }
MainCheckFound ==
    /\ ~panicked
    /\ mainpc = "walked"
    /\ IF Len(filepaths) = 0
       THEN /\ stdout' = Append(stdout, "No package.json files found.")
            /\ exitCode' = <<1>>
            /\ mainpc' = "exit1"
       ELSE /\ mainpc' = "dispatch"
            /\ UNCHANGED <<stdout, exitCode>>
    /\ UNCHANGED <<fs, walkVars, extractVars, located, previous, sync, find, run, panicked>>

\* for _, path := range filepaths { wg.Add(1); go extractScriptsFromPackageJSON(path, false, scriptsChan, &wg) }
ExtractDispatch ==
    /\ ~panicked
    /\ mainpc = "dispatch"
    /\ dispatched < Len(filepaths)
    /\ wgExtract' = wgExtract + 1
    /\ etasks' = Append(etasks, ExtractTask(filepaths[dispatched + 1], FALSE))
    /\ dispatched' = dispatched + 1
    /\ UNCHANGED <<fs, mainpc, walkVars, scriptsChan, scriptsClosed, allScripts,
                   located, previous, sync, mainVars, panicked>>

\* go func() { wg.Wait(); close(scriptsChan) }(), after the dispatch loop
ExtractStartWatcher ==
    /\ ~panicked
    /\ mainpc = "dispatch"
    /\ dispatched = Len(filepaths)
    /\ mainpc' = "drain"
    /\ UNCHANGED <<fs, walkVars, extractVars, located, previous, sync, mainVars, panicked>>

\* wg.Wait() has returned: close(scriptsChan)
ExtractWatcherClose ==
    /\ ~panicked
    /\ mainpc = "drain"
    /\ ~scriptsClosed
    /\ wgExtract = 0
    /\ scriptsClosed' = TRUE
    /\ UNCHANGED <<fs, mainpc, walkVars, etasks, dispatched, wgExtract, scriptsChan,
                   allScripts, located, previous, sync, mainVars, panicked>>

\* the catalog is collected only once the channel has been closed
ExtractCollectAfterClose ==
    /\ ~panicked
    /\ mainpc = "drain"
    /\ scriptsClosed
    /\ Len(scriptsChan) > 0
    /\ allScripts' = allScripts \o Head(scriptsChan)
    /\ scriptsChan' = Tail(scriptsChan)
    /\ UNCHANGED <<fs, mainpc, walkVars, etasks, dispatched, wgExtract,
                   scriptsClosed, located, previous, sync, mainVars, panicked>>

\* for scripts := range scriptsChan { allScripts = append(allScripts, scripts...) }
ExtractCollect ==
    /\ ~panicked
    /\ mainpc = "drain"
    /\ Len(scriptsChan) > 0
    /\ allScripts' = allScripts \o Head(scriptsChan)
    /\ scriptsChan' = Tail(scriptsChan)
    /\ UNCHANGED <<fs, mainpc, walkVars, etasks, dispatched, wgExtract,
                   scriptsClosed, located, previous, sync, mainVars, panicked>>

\* the range loop ends as soon as the channel is closed, drained or not
ExtractReturnEarly ==
    /\ ~panicked
    /\ mainpc = "drain"
    /\ scriptsClosed
    /\ mainpc' = "extracted"
    /\ UNCHANGED <<fs, walkVars, extractVars, located, previous, sync, mainVars, panicked>>

\* the range loop ends on the closed, drained channel: return allScripts
ExtractReturn ==
    /\ ~panicked
    /\ mainpc = "drain"
    /\ scriptsClosed
    /\ Len(scriptsChan) = 0
    /\ mainpc' = "extracted"
    /\ UNCHANGED <<fs, walkVars, extractVars, located, previous, sync, mainVars, panicked>>

ExtractNext ==
    \/ MainCheckFound
    \/ ExtractDispatch
    \/ ExtractStartWatcher
    \/ \E k \in DOMAIN etasks : ExtractParse(k)
    \/ \E k \in DOMAIN etasks : ExtractSend(k)
    \/ \E k \in DOMAIN etasks : ExtractSpawn(k)
    \/ \E k \in DOMAIN etasks : ExtractSpawnPnpm(k)
    \/ \E k \in DOMAIN etasks : ExtractTaskDone(k)
    \/ ExtractWatcherClose
    \/ ExtractCollect
    \/ ExtractReturn
    \/ \E k \in DOMAIN etasks : ExtractExpand(k)

Next == WalkNext \/ ExtractNext

----------------------------------------------------------------------------
(* Directory trees for the walk: every tree of at most MaxDirs directories *)
(* over TreeNames, every choice of the directories holding a package.json, *)
(* at most MaxUnreadable directories that cannot be listed; and one wide   *)
(* tree of WideDirs package directories.                                   *)

TreeNames == {"a", "b", "node_modules"}

TreeOrder == <<"a", "b", "node_modules", "package.json">>

\* a package.json with no name, no scripts and no workspaces
PlainManifest == [ok |-> TRUE, doc |-> [version |-> [t |-> "string", s |-> "1.0.0"]]]

RECURSIVE DirSets(_)
DirSets(n) ==
    IF n = 0 THEN {{<<>>}}
    ELSE LET prev == DirSets(n - 1)
         IN  prev \cup UNION {{ds \cup {Join(d, x)} : d \in ds, x \in TreeNames} : ds \in prev}

Tree(ds, withManifest, unreadable) ==
    [dirs |-> ds,
     manifest |-> [d \in withManifest |-> PlainManifest],
     pnpm |-> [d \in {} |-> [ok |-> TRUE, packages |-> <<>>]],
     other |-> {},
     unreadable |-> unreadable,
     order |-> TreeOrder]

WalkTrees ==
    UNION {{Tree(ds, m, u) : m \in SUBSET ds,
                            u \in {x \in SUBSET ds : Cardinality(x) <= MaxUnreadable}}
           : ds \in DirSets(MaxDirs)}

WideTree ==
    [dirs |-> {<<>>} \cup {<<ToString(i)>> : i \in 1..WideDirs},
     manifest |-> [d \in {<<ToString(i)>> : i \in 1..WideDirs} |-> PlainManifest],
     pnpm |-> [d \in {} |-> [ok |-> TRUE, packages |-> <<>>]],
     other |-> {},
     unreadable |-> {},
     order |-> [i \in 1..WideDirs |-> ToString(i)]]

WalkInit ==
    /\ mainpc = "start"
    /\ wtasks = <<>>
    /\ wgWalk = 0
    /\ pathsChan = <<>>
    /\ pathsClosed = FALSE
    /\ filepaths = <<>>
    /\ etasks = <<>>
    /\ dispatched = 0
    /\ wgExtract = 0
    /\ scriptsChan = <<>>
    /\ scriptsClosed = FALSE
    /\ allScripts = <<>>
    /\ located = [called |-> FALSE]
    /\ previous = [known |-> FALSE]
    /\ sync = [pc |-> "idle"]
    /\ stdout = <<>>
    /\ exitCode = <<>>
    /\ find = [called |-> FALSE]
    /\ run = [called |-> FALSE]
    /\ panicked = FALSE

----------------------------------------------------------------------------
(* File systems for the whole catalog build: a monorepo with the packages  *)
(* pkgs/foo and pkgs/bar.  In a rooted monorepo the search root holds a    *)
(* package.json and possibly a pnpm-workspace.yaml, whose patterns range   *)
(* over every choice of at most MaxPatterns patterns in the two files      *)
(* together; in a rootless one the walk finds foo and bar themselves and   *)
(* they declare each other as workspaces.                                  *)

\* largest number of patterns of a workspaces declaration and the sibling
\* pnpm-workspace.yaml together
MaxPatterns == 2

MonoDirs == {<<>>, <<"pkgs">>, <<"pkgs", "foo">>, <<"pkgs", "bar">>}

MonoOrder == <<"bar", "foo", "package.json", "pkgs", "pnpm-workspace.yaml">>

\* every sequence of at most n elements of S
SeqsUpTo(S, n) == UNION {[1..k -> S] : k \in 0..n}

Manifest(name, scripts, workspaces) ==
    [ok |-> TRUE, doc |-> [name |-> name, scripts |-> scripts, workspaces |-> workspaces]]

\* a manifest that cannot be read or is not JSON
BrokenManifest == [ok |-> FALSE, doc |-> <<>>]

\* "workspaces": [...]
ArrayForm(patterns) == JArray([i \in DOMAIN patterns |-> JPattern(patterns[i])])

\* "workspaces": {"packages": [...]}
ObjectForm(patterns) == JObject([packages |-> ArrayForm(patterns)])

PnpmFile(packages) == [ok |-> TRUE, packages |-> packages]

FooManifest == Manifest(JString("foo"), JObject([build |-> JString("tsc")]), JNil)

BarManifest == Manifest(JString("bar"), JObject([test |-> JString("jest")]), JNil)

RootScripts == {JNil, JObject([start |-> JString("node .")])}

RootPatterns == {<<"pkgs", "*">>, <<"pkgs", "foo">>, <<".">>}

RootPnpmPatterns == {<<"pkgs", "*">>, <<"!", "pkgs", "foo">>, <<".">>}

\* the search root holds package.json (and pnpm-workspace.yaml when pnpm is a file)
Rooted(rootScripts, workspaces, pnpm, bar) ==
    [dirs |-> MonoDirs,
     manifest |-> (<<>> :> Manifest(JString("root"), rootScripts, workspaces))
                  @@ (<<"pkgs", "foo">> :> FooManifest)
                  @@ (<<"pkgs", "bar">> :> bar),
     pnpm |-> [d \in {x \in {<<>>} : pnpm.ok} |-> pnpm],
     other |-> {},
     unreadable |-> {},
     order |-> MonoOrder]

NoPnpm == [ok |-> FALSE, packages |-> <<>>]

\* the two forms of a workspaces declaration with the given patterns
Forms(patterns) == {ArrayForm(patterns), ObjectForm(patterns)}

\* no pnpm-workspace.yaml, or one with at most n patterns
PnpmFiles(n) == {NoPnpm} \cup {PnpmFile(q) : q \in SeqsUpTo(RootPnpmPatterns, n)}

RootedFileSystems ==
    UNION {{Rooted(sc, ws, pn, BarManifest) :
                sc \in RootScripts, ws \in Forms(p), pn \in PnpmFiles(MaxPatterns - Len(p))}
           : p \in SeqsUpTo(RootPatterns, MaxPatterns)}

\* shapes of a member manifest: name and scripts present, absent or mis-typed
MemberManifests ==
    {Manifest(n, sc, JNil) :
        n \in {JString("bar"), JNil, JNumber},
        sc \in {JNil, JObject(<<>>),
                JObject([test |-> JString("jest")]),
                JObject([test |-> JString("jest"), lint |-> JString("eslint .")])}}
    \cup {BrokenManifest}

ShapedFileSystems ==
    {Rooted(JNil, ObjectForm(<<<<"pkgs", "*">>>>), NoPnpm, bar) : bar \in MemberManifests}

FooPatterns == {<<"..", "bar">>, <<"..", "*">>, <<".">>}

\* no package.json at the search root: the walk finds pkgs/foo and pkgs/bar
Rootless(fooWorkspaces, barWorkspaces, fooPnpm) ==
    [dirs |-> MonoDirs,
     manifest |-> (<<"pkgs", "foo">> :>
                      Manifest(JString("foo"), JObject([build |-> JString("tsc")]), fooWorkspaces))
                  @@ (<<"pkgs", "bar">> :>
                      Manifest(JString("bar"), JObject([test |-> JString("jest")]), barWorkspaces)),
     pnpm |-> [d \in {x \in {<<"pkgs", "foo">>} : fooPnpm.ok} |-> fooPnpm],
     other |-> {},
     unreadable |-> {},
     order |-> MonoOrder]

\* foo declares at most MaxPatterns patterns; while fewer, bar may declare
\* foo in turn, or foo may have a sibling pnpm-workspace.yaml
RootlessFileSystems ==
    UNION {{Rootless(ObjectForm(f), b, pn) :
                b \in {JNil} \cup {ObjectForm(<<<<"..", "foo">>>>) : x \in 1..(MaxPatterns - Len(f))},
                pn \in {NoPnpm} \cup {PnpmFile(<<<<"..", "*">>>>) : x \in 1..(MaxPatterns - Len(f))}}
           : f \in SeqsUpTo(FooPatterns, MaxPatterns)}

\* a tree without any package.json
EmptyFileSystem ==
    [dirs |-> {<<>>, <<"pkgs">>},
     manifest |-> [d \in {} |-> BrokenManifest],
     pnpm |-> [d \in {} |-> NoPnpm],
     other |-> {},
     unreadable |-> {},
     order |-> MonoOrder]

FileSystems ==
    RootedFileSystems \cup ShapedFileSystems \cup RootlessFileSystems \cup {EmptyFileSystem}

Init == fs \in FileSystems /\ WalkInit

\* the catalog build: the walk, then the extraction
Spec == Init /\ [][Next]_vars

\* the catalog build under fair scheduling of the goroutines
FairSpec == Spec /\ WF_vars(Next)

----------------------------------------------------------------------------
(* File systems for locatePnpmWorkspaces called on its own: a directory    *)
(* apps with any of the packages web, api and legacy and possibly a plain  *)
(* file, and a pnpm-workspace.yaml with at most MaxPatterns patterns.      *)

AppsNames == {"api", "legacy", "web"}

AppsOrder == <<"README.md", "api", "apps", "legacy", "package.json", "pnpm-workspace.yaml", "web">>

AppsPatterns == {<<"apps", "*">>, <<"!", "apps", "legacy">>, <<"apps", "web">>, <<"!", "apps", "*">>}

Apps(names, files, packages) ==
    [dirs |-> {<<>>, <<"apps">>} \cup {<<"apps", n>> : n \in names},
     manifest |-> [d \in {<<>>} \cup {<<"apps", n>> : n \in names} |-> PlainManifest],
     pnpm |-> [d \in {<<>>} |-> PnpmFile(packages)],
     other |-> files,
     unreadable |-> {},
     order |-> AppsOrder]

AppsFileSystems ==
    {Apps(names, files, packages) :
        names \in SUBSET AppsNames,
        files \in SUBSET {<<"apps", "README.md">>},
        packages \in SeqsUpTo(AppsPatterns, MaxPatterns)}

InitPnpm == fs \in AppsFileSystems /\ WalkInit

\* result, err := locatePnpmWorkspaces(".")
LocateCall ==
    /\ ~located.called
    /\ located' = [called |-> TRUE,
                   err |-> locatePnpmWorkspaces(<<>>).err,
                   result |-> locatePnpmWorkspaces(<<>>).result]
    /\ UNCHANGED <<fs, mainpc, walkVars, extractVars, previous, sync, mainVars, panicked>>

PnpmNext == LocateCall

\* locatePnpmWorkspaces applied to generated workspace files
SpecPnpm == InitPnpm /\ [][PnpmNext]_vars

InitWalk == fs \in WalkTrees \cup {WideTree} /\ WalkInit

\* the walk alone, on generated trees
SpecWalk == InitWalk /\ [][WalkNext]_vars

\* the walk under fair scheduling of the goroutines
FairSpecWalk == SpecWalk /\ WF_vars(WalkNext)

----------------------------------------------------------------------------
(* File systems with a manifest that is unreadable or mis-shaped: pkgs/bar  *)
(* is broken, or syntactically valid with name, scripts, script values and *)
(* workspaces of any type; pkgs/foo is well-formed.  The manifest is       *)
(* reached as a workspace member of the root, or found by the walk.        *)

\* "name" as a string or a number
ShapeNames == {JString("bar"), JNumber}

\* "scripts" absent, a number, an array, or an object whose values are
\* strings, a number, null or an object
ShapeScripts ==
    {JNil, JNumber, JArray(<<JString("jest")>>),
     JObject([test |-> JString("jest")]),
     JObject([test |-> JNumber]),
     JObject([test |-> JNil]),
     JObject([test |-> JString("jest"), lint |-> JObject(<<>>)])}

\* "workspaces" absent, a number, a string, or an object whose packages
\* field is a number or an array holding a number and a string
ShapeWorkspaces ==
    {JNil, JNumber, JPattern(<<"..", "*">>),
     JObject([packages |-> JNumber]),
     JObject([packages |-> JArray(<<JNumber, JPattern(<<"..", "foo">>)>>)])}

ShapeManifests ==
    {Manifest(n, sc, ws) : n \in ShapeNames, sc \in ShapeScripts, ws \in ShapeWorkspaces}
    \cup {BrokenManifest}

\* with a root manifest declaring pkgs/*; without a root manifest; and
\* without one, pkgs/foo having a sibling pnpm-workspace.yaml declaring ../*
ShapeFileSystemsOf(bar) ==
    {Rooted(JNil, ObjectForm(<<<<"pkgs", "*">>>>), NoPnpm, bar),
     [Rootless(JNil, JNil, NoPnpm) EXCEPT !.manifest[<<"pkgs", "bar">>] = bar],
     [Rootless(JNil, JNil, PnpmFile(<<<<"..", "*">>>>))
         EXCEPT !.manifest[<<"pkgs", "bar">>] = bar]}

ShapeFileSystems == UNION {ShapeFileSystemsOf(bar) : bar \in ShapeManifests}

InitShapes == fs \in ShapeFileSystems /\ WalkInit

\* the catalog build on unreadable and mis-shaped manifests
SpecShapes == InitShapes /\ [][Next]_vars

\* the same under fair scheduling of the goroutines
FairSpecShapes == SpecShapes /\ WF_vars(Next)

----------------------------------------------------------------------------
(* Properties *)

\* task k has read and parsed its manifest
Parsed(k) == etasks[k].pc # "start" /\ CanParse(etasks[k].path)

\* the manifest of task k has a scripts mapping
HasScriptsMap(k) ==
    /\ CanParse(etasks[k].path)
    /\ Lookup(fs.manifest[Dir(etasks[k].path)].doc, "scripts").t = "map[string]interface {}"

\* task k has sent its batch on scriptsChan
HasSent(k) == etasks[k].pc \notin {"start", "send"} /\ HasScriptsMap(k)

NoDuplicates(seq) == \A i, j \in DOMAIN seq : seq[i] = seq[j] => i = j

\* the number of occurrences of e in seq
Occurrences(seq, e) == Cardinality({i \in DOMAIN seq : seq[i] = e})

\* C1: in one catalog build each manifest path is extracted (parsed and its
\* scripts sent on scriptsChan) at most once, by whatever routes it is
\* reachable: no two extraction tasks extract the same manifest path.
C1_ExtractedAtMostOnce ==
    \A j, k \in DOMAIN etasks :
        (HasSent(j) /\ HasSent(k) /\ etasks[j].path = etasks[k].path) => j = k

\* C2: root/package.json without scripts and with workspaces ["pkgs/*"],
\* pkgs/foo (foo, build: tsc) and pkgs/bar (bar, test: jest)
C2FileSystem ==
    Rooted(JNil, ArrayForm(<<<<"pkgs", "*">>>>), NoPnpm, BarManifest)

FooBuild == NpmScript("foo", "build", "tsc", <<"pkgs", "foo", "package.json">>)

BarTest == NpmScript("bar", "test", "jest", <<"pkgs", "bar", "package.json">>)

RootStart == NpmScript("root", "start", "node .", <<"package.json">>)

\* C2: the catalog build of that tree returns exactly the two entries
\* (foo, build, tsc, pkgs/foo/package.json) and (bar, test, jest,
\* pkgs/bar/package.json).
C2_EndToEnd ==
    (fs = C2FileSystem /\ mainpc = "extracted")
        => Len(allScripts) = 2 /\ Range(allScripts) = {FooBuild, BarTest}

\* C3: a root manifest with its own script and the single workspace pattern
\* pkgs/*, in array form or in object form
C3FileSystems ==
    {Rooted(JObject([start |-> JString("node .")]), ws, NoPnpm, BarManifest) :
        ws \in Forms(<<<<"pkgs", "*">>>>)}

\* C3: with workspaces ["pkgs/*"] in either form, the catalog holds the
\* root's own scripts and every script of the two members, each exactly once.
C3_WorkspaceMembers ==
    (fs \in C3FileSystems /\ mainpc = "extracted")
        => Len(allScripts) = 3 /\ Range(allScripts) = {RootStart, FooBuild, BarTest}

\* no component of the directory is an ignored name
NoIgnored(dir) == \A i \in DOMAIN dir : dir[i] \notin ignoredDirs

\* the directories strictly above dir, the search root included
Above(dir) == {SubSeq(dir, 1, n) : n \in 0..(Len(dir) - 1)}

\* every directory that has to be listed to reach dir can be listed
Listable(dir) == CanList(<<>>) /\ \A a \in Above(dir) : CanList(a)

\* the manifests reachable from the search root without passing through an
\* ignored directory
ReachableManifests ==
    {PackageJSON(d) : d \in {x \in DOMAIN fs.manifest : NoIgnored(x) /\ Listable(x)}}

\* the manifests of package roots: reachable, and below no directory that
\* holds a manifest itself
RootManifests ==
    {PackageJSON(d) : d \in {x \in DOMAIN fs.manifest :
        /\ NoIgnored(x)
        /\ Listable(x)
        /\ \A a \in Above(x) : a \notin DOMAIN fs.manifest}}

\* C4 as claimed: the walk emits every manifest that is reachable from the
\* search root without passing through an ignored directory, each exactly
\* once.
C4_EveryReachableManifest ==
    mainpc = "walked"
        => NoDuplicates(filepaths) /\ Range(filepaths) = ReachableManifests

\* C4 as amended: the walk emits exactly once every manifest that is
\* reachable from the search root without passing through an ignored
\* directory and without passing below a directory that holds a manifest
\* itself; it emits nothing else.
C4_EveryRootManifest ==
    mainpc = "walked"
        => NoDuplicates(filepaths) /\ Range(filepaths) = RootManifests

\* C4: the walk has returned the manifest of a package root below the
\* search root and left out a manifest that lies below that package root
C4_Witness ==
    /\ mainpc = "walked"
    /\ \E d \in DOMAIN fs.manifest :
          /\ NoIgnored(d)
          /\ \E a \in Above(d) : a # <<>> /\ PackageJSON(a) \in Range(filepaths)
          /\ PackageJSON(d) \notin Range(filepaths)

\* C5: no manifest path emitted by the walk, in the channel or collected,
\* has a component below the search root that is an ignored name.
C5_NoIgnoredComponent ==
    \A p \in Range(pathsChan) \cup Range(filepaths) : NoIgnored(Dir(p))

\* C5: the walk has listed a directory holding an ignored directory with a
\* manifest, and has returned another manifest
C5_Witness ==
    /\ mainpc = "walked"
    /\ filepaths # <<>>
    /\ <<"node_modules">> \in DOMAIN fs.manifest
    /\ <<>> \notin DOMAIN fs.manifest
    /\ CanList(<<>>)

\* the number of elements of the batches of a sequence of batches equal to e
RECURSIVE OccurrencesIn(_, _)
OccurrencesIn(batches, e) ==
    IF batches = <<>> THEN 0
    ELSE Occurrences(Head(batches), e) + OccurrencesIn(Tail(batches), e)

\* the batches of the tasks that have sent theirs, in task order
SentBatches ==
    LET sent == SelectSeq([k \in DOMAIN etasks |-> k], HasSent)
    IN  [i \in DOMAIN sent |-> etasks[sent[i]].batch]

\* every script a task of the run can produce
AllEntries ==
    UNION {Range(etasks[k].batch) : k \in DOMAIN etasks}

\* C6: under fair scheduling the extraction phase, once entered, returns the
\* catalog, whatever the workspace declarations and however many batches
\* are sent.
C6_ExtractionTerminates == (mainpc = "dispatch") ~> (mainpc = "extracted")

\* C6: the extraction has returned after a workspace pattern led back to
\* the declaring root manifest, with more batches sent than the channel holds
C6_Witness ==
    /\ mainpc = "extracted"
    /\ \E j, k \in DOMAIN etasks :
          /\ ~etasks[j].isLeaf
          /\ etasks[k].isLeaf
          /\ etasks[k].path = etasks[j].path
    /\ Len(SentBatches) > Len(filepaths)

C8_WalkTerminates == <>(mainpc = "walked")

\* C8: a walk task is blocked on the full pathsChan
C8_Witness ==
    /\ Len(pathsChan) = PathsChanCap
    /\ \E k \in DOMAIN wtasks : wtasks[k].pc = "sendChild"

\* the scripts mapping of the manifest at filePath
ScriptsMapAt(filePath) == Lookup(fs.manifest[Dir(filePath)].doc, "scripts").m

\* the name field of the manifest at filePath
NameAt(filePath) == Lookup(fs.manifest[Dir(filePath)].doc, "name")

\* C9: a task that has parsed a manifest whose scripts field is a mapping of
\* size N holds exactly N entries, one per key, each with the key as script
\* name, the mapped string as command, the manifest's name ("unknown" when
\* the name is missing or no string) and the manifest's path.
C9_OneEntryPerScript ==
    \A k \in DOMAIN etasks :
        (Parsed(k) /\ HasScriptsMap(k)) =>
            LET t == etasks[k]
                m == ScriptsMapAt(t.path)
            IN  /\ Len(t.batch) = Cardinality(DOMAIN m)
                /\ \A key \in DOMAIN m :
                      \E i \in DOMAIN t.batch :
                          /\ t.batch[i].ScriptName = key
                          /\ t.batch[i].Command = m[key].s
                          /\ t.batch[i].AbsolutePath = t.path
                          /\ t.batch[i].PackageName =
                                IF NameAt(t.path).t = "string"
                                THEN NameAt(t.path).s ELSE "unknown"

\* C9: a task has read two scripts from a manifest without a name
C9_Witness ==
    \E k \in DOMAIN etasks :
        /\ etasks[k].pc = "done"
        /\ HasScriptsMap(k)
        /\ Cardinality(DOMAIN ScriptsMapAt(etasks[k].path)) = 2
        /\ NameAt(etasks[k].path).t = "nil"

\* the declarations ["apps/*", "!apps/legacy"], in both orders
AppsMinusLegacy ==
    { << <<"apps", "*">>, <<"!", "apps", "legacy">> >>,
      << <<"!", "apps", "legacy">>, <<"apps", "*">> >> }

\* C10: for packages ["apps/*", "!apps/legacy"], in either order,
\* locatePnpmWorkspaces returns without error exactly the existing paths
\* directly in apps, except apps/legacy.
C10_AppsExceptLegacy ==
    (located.called /\ fs.pnpm[<<>>].packages \in AppsMinusLegacy) =>
        /\ ~located.err
        /\ located.result =
              {q \in fs.dirs \cup fs.other : Len(q) = 2 /\ q[1] = "apps"}
                  \ {<<"apps", "legacy">>}

\* C10: the exclusion is listed first, apps/legacy and apps/web exist
C10_Witness ==
    /\ located.called
    /\ fs.pnpm[<<>>].packages = << <<"!", "apps", "legacy">>, <<"apps", "*">> >>
    /\ {<<"apps", "legacy">>, <<"apps", "web">>} \subseteq fs.dirs
    /\ <<"apps", "web">> \in located.result

\* the file systems in which pkgs/bar/package.json cannot be read or parsed
C11FileSystems == ShapeFileSystemsOf(BrokenManifest)

BarPath == <<"pkgs", "bar", "package.json">>

\* the tasks for the unparseable manifest hold no script and never send or
\* expand, no script of that manifest is sent or catalogued, the counter
\* counts the unfinished tasks, and once the catalog is returned every task
\* has finished and the scripts of pkgs/foo are in it
UnparseableContained ==
    /\ ~panicked
    /\ wgExtract = Cardinality({k \in DOMAIN etasks : etasks[k].pc # "done"})
    /\ \A k \in DOMAIN etasks :
          etasks[k].path = BarPath
              => etasks[k].batch = <<>> /\ etasks[k].pc \in {"start", "ret", "done"}
    /\ \A e \in Range(allScripts) \cup UNION {Range(b) : b \in Range(scriptsChan)} :
          e.AbsolutePath # BarPath
    /\ mainpc = "extracted" =>
          /\ wgExtract = 0
          /\ \A k \in DOMAIN etasks : etasks[k].pc = "done"
          /\ Occurrences(allScripts, FooBuild) >= 1

\* C11: a manifest that cannot be read or parsed contributes no script, its
\* task still decrements the completion counter, and under fair scheduling
\* the run completes with the other manifest's scripts in the catalog.
C11_UnparseableContributesNothing ==
    /\ [](fs \in C11FileSystems => UnparseableContained)
    /\ (fs \in C11FileSystems /\ mainpc = "start") ~> (mainpc = "extracted")

\* C11: the catalog has been returned after a top-level task and a
\* workspace-member task have failed to parse pkgs/bar/package.json
C11_Witness ==
    /\ fs \in C11FileSystems
    /\ mainpc = "extracted"
    /\ \E j, k \in DOMAIN etasks :
          /\ etasks[j].path = BarPath /\ ~etasks[j].isLeaf /\ etasks[j].pc = "done"
          /\ etasks[k].path = BarPath /\ etasks[k].isLeaf /\ etasks[k].pc = "done"
    /\ allScripts # <<>>

\* C12: on a syntactically valid manifest whose name, scripts, script
\* values or workspaces have an unexpected type, no goroutine panics: every
\* extraction task finishes and the run is not aborted.
C12_NeverFailsLoudly ==
    /\ ~panicked
    /\ mainpc = "extracted" => \A k \in DOMAIN etasks : etasks[k].pc = "done"

----------------------------------------------------------------------------
(* The catalog build run a second time on the same tree: the catalog of    *)
(* the first build is kept in previous, and the walk and the extraction    *)
(* start again from their initial state with fs unchanged.                 *)

\* findProjectRootPackageJSONPathsConcurrent and
\* extractScriptsFromPackageJSONsConcurrent are called once more
Rerun ==
    /\ ~panicked
    /\ mainpc = "extracted"
    /\ ~previous.known
    /\ previous' = [known |-> TRUE, catalog |-> Range(allScripts)]
    /\ mainpc' = "start"
    /\ wtasks' = <<>>
    /\ wgWalk' = 0
    /\ pathsChan' = <<>>
    /\ pathsClosed' = FALSE
    /\ filepaths' = <<>>
    /\ etasks' = <<>>
    /\ dispatched' = 0
    /\ wgExtract' = 0
    /\ scriptsChan' = <<>>
    /\ scriptsClosed' = FALSE
    /\ allScripts' = <<>>
    /\ UNCHANGED <<fs, located, sync, mainVars, panicked>>

NextTwice == Next \/ Rerun

SpecTwice == Init /\ [][NextTwice]_vars

\* C13: when the catalog build is run twice on the same unchanged tree, the
\* second build returns the same set of script entries (package name, script
\* name, command, manifest path) as the first, whatever the interleavings of
\* the walk and extraction tasks of the two builds.
C13_SameCatalogTwice ==
    (previous.known /\ mainpc = "extracted") => Range(allScripts) = previous.catalog

\* the second build has returned, the first one's catalog had several
\* entries, and the second one ran a workspace member's task
C13_Witness ==
    /\ previous.known
    /\ mainpc = "extracted"
    /\ Cardinality(previous.catalog) >= 2
    /\ Len(allScripts) >= 2
    /\ \E k \in DOMAIN etasks : etasks[k].isLeaf

----------------------------------------------------------------------------
(* main after the catalog build: the selection UI, inferPackageManager and *)
(* runScript.  A path as the program sees it is [abs, comps]: "." is the   *)
(* relative path without components, "/" the absolute one; the paths of    *)
(* the model are taken below fs.searchPath, the search root as main got    *)
(* it.  fs.outside holds the files that exist outside the search root.     *)

\* largest exit code of the child process that is told apart
MaxExitCode == 2
\* largest number of lockfiles below the search root
MaxLocks == 2

\* filepath.Join(searchPath, ...) as the walk builds a manifest's path
GoPath(filePath) ==
    [abs |-> fs.searchPath.abs, comps |-> fs.searchPath.comps \o filePath]

\* filepath.Dir of a clean path: "." and "/" are their own parent
GoDir(p) == IF p.comps = <<>> THEN p ELSE [p EXCEPT !.comps = Front(@)]

\* dir != "."
NotDot(dir) == dir.abs \/ dir.comps # <<>>

\* os.Stat of a path as the program sees it
GoStat(p) ==
    \/ p \in fs.outside
    \/ LET n == Len(fs.searchPath.comps)
       IN  /\ p.abs = fs.searchPath.abs
           /\ Len(p.comps) >= n
           /\ SubSeq(p.comps, 1, n) = fs.searchPath.comps
           /\ Stat(SubSeq(p.comps, n + 1, Len(p.comps)))

knownLockFiles ==
    ("package-lock.json" :> "npm") @@ ("yarn.lock" :> "yarn")
    @@ ("pnpm-lock.yaml" :> "pnpm") @@ ("bun.lock" :> "bun") @@ ("bun.lockb" :> "bun")

\* the lockfiles of knownLockFiles that exist in dir
LockFilesIn(dir) ==
    {lockFile \in DOMAIN knownLockFiles :
        GoStat([dir EXCEPT !.comps = Append(@, lockFile)])}

\* idx, err := fuzzyfinder.Find(allScripts, ...): the user picks an entry or
\* aborts, or the UI fails; then fmt.Printf("Found %d projects in %s\n", ...)
MainFind ==
    /\ ~panicked
    /\ mainpc = "extracted"
    /\ find' \in {[called |-> TRUE, idx |-> i, err |-> "nil"] : i \in 0..(Len(allScripts) - 1)}
                \cup {[called |-> TRUE, idx |-> -1, err |-> e] : e \in {"ErrAbort", "other"}}
    /\ stdout' = Append(stdout, "Found projects")
    /\ mainpc' = "found"
    /\ UNCHANGED <<fs, walkVars, extractVars, located, previous, sync, exitCode, run, panicked>>

\* every error of the selection UI is printed
MainAbortReports ==
    /\ ~panicked
    /\ mainpc = "found"
    /\ find.err # "nil"
    /\ stdout' = Append(stdout, "Error:")
    /\ exitCode' = <<0>>
    /\ mainpc' = "returned"
    /\ UNCHANGED <<fs, walkVars, extractVars, located, previous, sync, find, run, panicked>>

\* if err != nil { if err != fuzzyfinder.ErrAbort { fmt.Println("Error:", err) }; return }
MainAbort ==
    /\ ~panicked
    /\ mainpc = "found"
    /\ find.err # "nil"
    /\ stdout' = IF find.err # "ErrAbort" THEN Append(stdout, "Error:") ELSE stdout
    /\ exitCode' = <<0>>
    /\ mainpc' = "returned"
    /\ UNCHANGED <<fs, walkVars, extractVars, located, previous, sync, find, run, panicked>>

\* runScript(allScripts[idx]) up to dir := filepath.Dir(filePath) in inferPackageManager
MainRunScript ==
    /\ ~panicked
    /\ mainpc = "found"
    /\ find.err = "nil"
    /\ run' = [called |-> TRUE, pc |-> "infer", script |-> allScripts[find.idx + 1],
               dir |-> GoDir(GoPath(allScripts[find.idx + 1].AbsolutePath)),
               packageManager |-> "", cmd |-> <<>>, child |-> [kind |-> "none"]]
    /\ mainpc' = "runScript"
    /\ UNCHANGED <<fs, walkVars, extractVars, located, previous, sync, stdout, exitCode, find, panicked>>

\* for dir != "." { for lockFile, pkgManager := range knownLockFiles {
\*     if os.Stat(filepath.Join(dir, lockFile)) succeeds { return pkgManager } } ... }
InferFound ==
    /\ mainpc = "runScript"
    /\ run.pc = "infer"
    /\ NotDot(run.dir)
    /\ \E lockFile \in LockFilesIn(run.dir) :
          run' = [run EXCEPT !.packageManager = knownLockFiles[lockFile], !.pc = "exec"]
    /\ UNCHANGED <<fs, mainpc, walkVars, extractVars, located, previous, sync, stdout,
                   exitCode, find, panicked>>

\* the range over knownLockFiles ends: no lockfile in dir
InferNone ==
    /\ mainpc = "runScript"
    /\ run.pc = "infer"
    /\ NotDot(run.dir)
    /\ LockFilesIn(run.dir) = {}
    /\ run' = [run EXCEPT !.pc = "up"]
    /\ UNCHANGED <<fs, mainpc, walkVars, extractVars, located, previous, sync, stdout,
                   exitCode, find, panicked>>

\* dir = filepath.Dir(dir), and back to the loop condition
InferUp ==
    /\ mainpc = "runScript"
    /\ run.pc = "up"
    /\ run' = [run EXCEPT !.dir = GoDir(@), !.pc = "infer"]
    /\ UNCHANGED <<fs, mainpc, walkVars, extractVars, located, previous, sync, stdout,
                   exitCode, find, panicked>>

\* the loop ends with dir == ".": return "npm"
InferDefault ==
    /\ mainpc = "runScript"
    /\ run.pc = "infer"
    /\ ~NotDot(run.dir)
    /\ run' = [run EXCEPT !.packageManager = "npm", !.pc = "exec"]
    /\ UNCHANGED <<fs, mainpc, walkVars, extractVars, located, previous, sync, stdout,
                   exitCode, find, panicked>>

\* exec.Command(cmdName, run, script.ScriptName)
Command(packageManager, scriptName) ==
    IF packageManager = "npm" THEN <<"node", "--run", scriptName>>
    ELSE <<packageManager, "run", scriptName>>

\* what cmd.Run() can observe: the child exits with a code, is killed by a
\* signal (ExitCode() is -1), or cannot be started
ChildOutcomes ==
    {[kind |-> "exited", code |-> c] : c \in 0..MaxExitCode}
    \cup {[kind |-> "signaled", code |-> -1], [kind |-> "failed", code |-> -1]}

\* the status the operating system reports for os.Exit(code)
ExitStatus(code) == code % 256

\* every failure of the child ends the program with status 1
ProgramExitOne(child) ==
    IF child.kind = "exited" /\ child.code = 0 THEN 0 ELSE 1

\* the program's exit status after cmd.Run(): 0 when runScript and main
\* return, os.Exit(exitError.ExitCode()) on an *exec.ExitError, else os.Exit(1)
ProgramExit(child) ==
    IF child.kind = "failed" THEN 1 ELSE ExitStatus(child.code)

\* cmd.Run() and the handling of its error
RunExec ==
    /\ mainpc = "runScript"
    /\ run.pc = "exec"
    /\ \E child \in ChildOutcomes :
          /\ run' = [run EXCEPT !.pc = "done", !.child = child,
                                !.cmd = Command(run.packageManager, run.script.ScriptName)]
          /\ stdout' = IF child.kind = "failed" THEN Append(stdout, "Error:") ELSE stdout
          /\ exitCode' = <<ProgramExit(child)>>
          /\ mainpc' = IF ProgramExit(child) = 0 THEN "returned" ELSE "exit"
    /\ UNCHANGED <<fs, walkVars, extractVars, located, previous, sync, find, panicked>>

MainNext ==
    \/ Next
    \/ MainFind
    \/ MainAbort
    \/ MainRunScript
    \/ InferFound
    \/ InferNone
    \/ InferUp
    \/ InferDefault
    \/ RunExec

\* names in directory order, with the lockfiles
MainOrder ==
    <<"bar", "foo", "node_modules", "package-lock.json", "package.json", "pkgs",
      "pnpm-lock.yaml", "pnpm-workspace.yaml", "yarn.lock">>

\* where a lockfile may lie below the search root
LockPaths ==
    {<<"yarn.lock">>, <<"package-lock.json">>, <<"pkgs", "pnpm-lock.yaml">>,
     <<"pkgs", "foo", "yarn.lock">>}

\* the search root as given to main: ".", "proj" and "/work"
SearchPaths ==
    {[abs |-> FALSE, comps |-> <<>>], [abs |-> FALSE, comps |-> <<"proj">>],
     [abs |-> TRUE, comps |-> <<"work">>]}

\* a yarn.lock beside the search root, when the program can name that place
Outside(searchPath) ==
    IF searchPath.comps = <<>> THEN {}
    ELSE {[searchPath EXCEPT !.comps = <<"yarn.lock">>]}

\* no manifest; a manifest under node_modules only; a monorepo with a root
\* manifest; one without, where pkgs/foo has a pnpm-workspace.yaml
MainTrees ==
    {EmptyFileSystem,
     [EmptyFileSystem EXCEPT !.dirs = {<<>>, <<"node_modules">>},
                             !.manifest = (<<"node_modules">> :> FooManifest)],
     Rooted(JObject([start |-> JString("node .")]), ObjectForm(<<<<"pkgs", "*">>>>),
            NoPnpm, BarManifest),
     Rootless(JNil, JNil, PnpmFile(<<<<"..", "*">>>>))}

MainFileSystems ==
    UNION {{[dirs |-> t.dirs, manifest |-> t.manifest, pnpm |-> t.pnpm,
             other |-> {l \in locks : Front(l) \in t.dirs}, unreadable |-> {},
             order |-> MainOrder, searchPath |-> sp, outside |-> out] :
                t \in MainTrees,
                locks \in {x \in SUBSET LockPaths : Cardinality(x) <= MaxLocks},
                out \in SUBSET Outside(sp)}
           : sp \in SearchPaths}

InitMain == fs \in MainFileSystems /\ WalkInit

\* the whole program
SpecMain == InitMain /\ [][MainNext]_vars

\* the whole program when the goroutines are scheduled fairly, the user
\* answers the selection UI and the child process ends
FairSpecMain == SpecMain /\ WF_vars(MainNext)

----------------------------------------------------------------------------
(* Properties of main, inferPackageManager and runScript *)

\* the walk has returned and has found no manifest
NothingFound == mainpc \notin {"start", "collect"} /\ Len(filepaths) = 0

\* C14: when the walk finds no manifest, main reports it and ends with a
\* failure status (1), and no extraction task is dispatched, the selection UI
\* is not called and runScript is not called in that run.
C14_NoManifestIsFatal ==
    /\ [](NothingFound =>
            /\ mainpc \in {"walked", "exit1"}
            /\ etasks = <<>> /\ dispatched = 0
            /\ ~find.called
            /\ ~run.called
            /\ mainpc = "walked" => exitCode = <<>> /\ stdout = <<>>
            /\ mainpc = "exit1" =>
                  exitCode = <<1>> /\ stdout = <<"No package.json files found.">>)
    /\ NothingFound ~> (mainpc = "exit1" /\ exitCode = <<1>>)

\* main has ended with status 1 on a tree whose only manifest lies under
\* node_modules
C14_Witness ==
    /\ mainpc = "exit1"
    /\ exitCode = <<1>>
    /\ DOMAIN fs.manifest # {}
    /\ filepaths = <<>>

\* dir and every ancestor of dir, up to "." or "/"
Ancestors(dir) == {[dir EXCEPT !.comps = SubSeq(@, 1, n)] : n \in 0..Len(dir.comps)}

\* the directory of the manifest of the script runScript was called with
ManifestDir == GoDir(GoPath(run.script.AbsolutePath))

\* inferPackageManager has returned
Inferred == run.called /\ run.pc \in {"exec", "done"}

\* C15: inferPackageManager returns for every manifest path, relative or
\* absolute, and it returns npm when neither the manifest's directory nor any
\* ancestor of it up to the root holds a recognized lockfile.
C15_InferTerminates ==
    /\ [](Inferred /\ (\A d \in Ancestors(ManifestDir) : LockFilesIn(d) = {})
            => run.packageManager = "npm")
    /\ (run.called /\ run.pc \in {"infer", "up"}) ~> Inferred

\* the directories, from dir upwards, that hold a recognized lockfile
LockHolders(dir) == {d \in Ancestors(dir) : LockFilesIn(d) # {}}

\* the managers of the lockfiles of the nearest such directory
NearestManagers(dir) ==
    LET nearest == CHOOSE d \in LockHolders(dir) :
                       \A e \in LockHolders(dir) : Len(e.comps) <= Len(d.comps)
    IN  {knownLockFiles[lockFile] : lockFile \in LockFilesIn(nearest)}

\* C16: when the manifest's own directory (the search root "." included) or
\* an ancestor of it holds a recognized lockfile, inferPackageManager returns
\* the manager of a lockfile of the nearest such directory, the search
\* starting at the manifest's own directory.
C16_NearestLockfile ==
    (Inferred /\ LockHolders(ManifestDir) # {})
        => run.packageManager \in NearestManagers(ManifestDir)

\* C17: once runScript has run the selected script's command, the program's
\* exit code is the child's: 0 when the child exits with 0, the child's code
\* when it exits with another code; and it is 1 when the child could not be
\* started.
C17_ExitCodeOfChild ==
    (run.called /\ run.pc = "done") =>
        /\ run.child.kind = "exited" => exitCode = <<run.child.code>>
        /\ run.child.kind = "failed" => exitCode = <<1>>

\* the child has exited with a code other than 0 and 1 and the program has
\* ended with that code
C17_Witness ==
    /\ run.called /\ run.pc = "done"
    /\ run.child.kind = "exited"
    /\ run.child.code > 1
    /\ exitCode = <<run.child.code>>
    /\ mainpc = "exit"

\* C18: when the user aborts the selection UI, main returns with status 0
\* without printing an error and runScript is not called; runScript is called
\* only after the selection UI has returned no error and an index of the
\* catalog.
C18_CancelIsNormalReturn ==
    /\ [](find.called /\ find.err = "ErrAbort" =>
            /\ ~run.called
            /\ mainpc \in {"found", "returned"}
            /\ \A i \in DOMAIN stdout : stdout[i] # "Error:"
            /\ mainpc = "returned" => exitCode = <<0>>)
    /\ [](run.called =>
            find.called /\ find.err = "nil" /\ find.idx \in 0..(Len(allScripts) - 1))
    /\ (find.called /\ find.err = "ErrAbort") ~> (mainpc = "returned")

\* main has returned after the user aborted the selection of a non-empty catalog
C18_Witness ==
    /\ find.called /\ find.err = "ErrAbort"
    /\ mainpc = "returned"
    /\ exitCode = <<0>>
    /\ Len(allScripts) > 0

----------------------------------------------------------------------------
(* Package boundaries of the walk, and the self-reference of a workspace *)

\* C19: a directory that holds a manifest is a package boundary, be it the
\* search root or a descendant: no findPackageJSON task runs below it, the
\* task of such a directory never goes through its entries, no manifest
\* strictly below it is ever emitted, and the manifest of every boundary the
\* walk reaches is among the paths returned.
C19_PackageBoundary ==
    /\ \A p \in Range(pathsChan) \cup Range(filepaths) :
          \A a \in Above(Dir(p)) : a \notin DOMAIN fs.manifest
    /\ \A k \in DOMAIN wtasks :
          /\ \A a \in Above(wtasks[k].path) : a \notin DOMAIN fs.manifest
          /\ wtasks[k].path \in DOMAIN fs.manifest =>
                wtasks[k].path = <<>> /\ wtasks[k].pc \notin {"loop", "sendChild"}
    /\ mainpc = "walked" => RootManifests \subseteq Range(filepaths)

\* the search root holds a manifest and so does a directory below it: the
\* walk has returned the root's manifest only
C19_Witness ==
    /\ mainpc = "walked"
    /\ <<>> \in DOMAIN fs.manifest
    /\ \E d \in DOMAIN fs.manifest : d # <<>> /\ NoIgnored(d)
    /\ filepaths = <<PackageJSON(<<>>)>>

\* C20: a task that reads a manifest's workspace declarations never
\* dispatches that same manifest again, whether its own directory is matched
\* by a pattern of its workspaces field or of the sibling pnpm-workspace.yaml;
\* and when the search root holds the only manifest the walk returns, each of
\* its scripts is in the catalog exactly once.
C20_SelfReferenceGuard ==
    /\ \A k \in DOMAIN etasks :
          /\ etasks[k].path \notin Range(etasks[k].todo)
          /\ etasks[k].path \notin etasks[k].pnpmTodo
    /\ (mainpc = "extracted" /\ <<>> \in DOMAIN fs.manifest) =>
          \A e \in Range(allScripts) :
              e.AbsolutePath = PackageJSON(<<>>) => Occurrences(allScripts, e) = 1

----------------------------------------------------------------------------
(* Workspace declarations holding a malformed pattern ("[" is an           *)
(* unterminated character class), in the workspaces field and in           *)
(* pnpm-workspace.yaml, of a root manifest and of pkgs/foo.                *)

BadRootPatterns == {<<"pkgs", "[">>, <<"pkgs", "foo">>, <<"pkgs", "*">>}

BadRootPnpmPatterns == BadRootPatterns \cup {<<"!", "pkgs", "[">>, <<"!", "pkgs", "bar">>}

BadFooPatterns == {<<"..", "[">>, <<"..", "bar">>}

BadPatternFileSystems ==
    {Rooted(JNil, ObjectForm(p), NoPnpm, BarManifest) :
        p \in SeqsUpTo(BadRootPatterns, MaxPatterns)}
    \cup {Rooted(JNil, JNil, PnpmFile(q), BarManifest) :
        q \in SeqsUpTo(BadRootPnpmPatterns, MaxPatterns)}
    \cup {Rootless(ObjectForm(p), JNil, NoPnpm) :
        p \in SeqsUpTo(BadFooPatterns, MaxPatterns)}
    \cup {Rootless(JNil, JNil, PnpmFile(q)) :
        q \in SeqsUpTo(BadFooPatterns, MaxPatterns)}

InitPatterns == fs \in BadPatternFileSystems /\ WalkInit

\* the catalog build on declarations with malformed patterns
SpecPatterns == InitPatterns /\ [][Next]_vars

\* the well-formed patterns of a list
ValidOnly(patterns) == SelectSeq(patterns, LAMBDA x : ~GlobErr(x))

\* the members the well-formed patterns of the workspaces field of the
\* manifest at filePath declare
ValidWorkspaceMembers(filePath) ==
    Range(WorkspaceMembers(Dir(filePath),
              ValidOnly(WorkspacePatterns(fs.manifest[Dir(filePath)].doc)), {}))

\* the members the well-formed include patterns of the sibling
\* pnpm-workspace.yaml declare, less those of its well-formed exclude patterns
ValidPnpmMembers(filePath) ==
    LET root == Dir(filePath)
    IN  IF root \notin DOMAIN fs.pnpm \/ ~fs.pnpm[root].ok THEN {}
        ELSE LET inc == ValidOnly(IncludePatterns(root, fs.pnpm[root].packages))
                 exc == ValidOnly(ExcludePatterns(root, fs.pnpm[root].packages))
             IN  {x \in {PackageJSON(m) : m \in ExcludeMatches(IncludeMatches(inc), exc)} :
                     x # filePath /\ Stat(x)}

\* the manifests that were dispatched as workspace members
LeafPaths == {etasks[k].path : k \in {j \in DOMAIN etasks : etasks[j].isLeaf}}

\* C21: a malformed pattern only loses its own expansion: every member
\* declared by a well-formed pattern of the same workspaces field, and
\* every member declared by the well-formed include and exclude patterns of
\* the same pnpm-workspace.yaml, is still dispatched for extraction.
C21_PatternErrorsLocal ==
    mainpc = "extracted" =>
        \A k \in DOMAIN etasks :
            ~etasks[k].isLeaf =>
                /\ ValidWorkspaceMembers(etasks[k].path) \subseteq LeafPaths
                /\ ValidPnpmMembers(etasks[k].path) \subseteq LeafPaths

\* the part of C21 about the workspaces field alone
C21_WorkspacesFieldOnly ==
    mainpc = "extracted" =>
        \A k \in DOMAIN etasks :
            ~etasks[k].isLeaf => ValidWorkspaceMembers(etasks[k].path) \subseteq LeafPaths

----------------------------------------------------------------------------
(* Leaf tasks, and the dedup within one workspaces declaration *)

\* C22: a task started with isLeaf = true reads neither the workspaces field
\* nor a sibling pnpm-workspace.yaml: it has nothing to dispatch, no step of
\* it starts a task or increments the counter, and so every task is a
\* top-level task or a leaf started by one.
C22_LeafNeverSpawns ==
    /\ [](\A k \in DOMAIN etasks :
            etasks[k].isLeaf =>
                /\ etasks[k].pc \notin {"expand", "spawn"}
                /\ etasks[k].todo = <<>>
                /\ etasks[k].pnpmTodo = {})
    /\ [][\A k \in DOMAIN etasks :
            (etasks[k].isLeaf /\ etasks'[k] # etasks[k]) =>
                Len(etasks') = Len(etasks) /\ wgExtract' <= wgExtract]_vars

\* a leaf task has finished on a manifest that declares workspaces itself
\* and has a sibling pnpm-workspace.yaml
C22_Witness ==
    \E k \in DOMAIN etasks :
        /\ etasks[k].isLeaf
        /\ etasks[k].pc = "done"
        /\ WorkspacePatterns(fs.manifest[Dir(etasks[k].path)].doc) # <<>>
        /\ Dir(etasks[k].path) \in DOMAIN fs.pnpm

\* the number of leaf tasks started for the manifest at filePath
LeafTasksFor(filePath) ==
    Cardinality({k \in DOMAIN etasks : etasks[k].isLeaf /\ etasks[k].path = filePath})

\* C23: the list of members a task dispatches from its manifest's own
\* workspaces field never holds a manifest path twice, even when several
\* patterns, glob or literal, resolve to the same directory; when the search
\* root's manifest is the only one that declares workspaces and there is no
\* pnpm-workspace.yaml, each member gets at most one task.
C23_MemberDispatchedOnce ==
    /\ \A k \in DOMAIN etasks : NoDuplicates(etasks[k].todo)
    /\ (<<>> \in DOMAIN fs.manifest /\ DOMAIN fs.pnpm = {}) =>
          \A d \in DOMAIN fs.manifest : d # <<>> => LeafTasksFor(PackageJSON(d)) <= 1

\* the root manifest declares pkgs/* and pkgs/foo, the build has returned,
\* and pkgs/foo has been extracted by one leaf task
C23_Witness ==
    /\ mainpc = "extracted"
    /\ <<>> \in DOMAIN fs.manifest
    /\ DOMAIN fs.pnpm = {}
    /\ WorkspacePatterns(fs.manifest[<<>>].doc) = <<<<"pkgs", "*">>, <<"pkgs", "foo">>>>
    /\ LeafTasksFor(PackageJSON(<<"pkgs", "foo">>)) = 1

----------------------------------------------------------------------------
(* Unreadable directories, and the counter and the channel of the walk *)

\* the manifests in readable, non-ignored directories all of whose
\* ancestors are readable
ReadableManifests ==
    {PackageJSON(d) : d \in {x \in DOMAIN fs.manifest :
        NoIgnored(x) /\ CanList(x) /\ \A a \in Above(x) : CanList(a)}}

\* those of them that lie below no directory holding a manifest
ReadableRootManifests ==
    {p \in ReadableManifests : \A a \in Above(Dir(p)) : a \notin DOMAIN fs.manifest}

\* on a tree with an unreadable directory: the task of such a directory
\* only opens it and returns, nothing panics, the walk returns with the
\* counter at zero and every task finished, and the expected manifests are
\* among the paths returned
UnreadableSkipped(expected) ==
    fs.unreadable # {} =>
        /\ ~panicked
        /\ \A k \in DOMAIN wtasks :
              ~CanList(wtasks[k].path) => wtasks[k].pc \in {"open", "ret", "done"}
        /\ mainpc = "walked" =>
              /\ wgWalk = 0
              /\ \A k \in DOMAIN wtasks : wtasks[k].pc = "done"
              /\ expected \subseteq Range(filepaths)

\* C24 as claimed: a directory that cannot be opened or listed is skipped
\* silently, its task decrements the counter, the walk terminates, and every
\* manifest in readable, non-ignored directories outside the unreadable
\* subtree is emitted.
C24_EveryReadableManifest ==
    /\ []UnreadableSkipped(ReadableManifests)
    /\ (fs.unreadable # {} /\ mainpc = "start") ~> (mainpc = "walked")

\* C24 as amended: the same, for every such manifest that lies below no
\* directory holding a manifest itself.
C24_EveryReadableRootManifest ==
    /\ []UnreadableSkipped(ReadableRootManifests)
    /\ (fs.unreadable # {} /\ mainpc = "start") ~> (mainpc = "walked")

\* the walk has returned a manifest from a tree in which the task of an
\* unreadable directory below the search root has finished
C24_Witness ==
    /\ mainpc = "walked"
    /\ filepaths # <<>>
    /\ \E k \in DOMAIN wtasks :
          /\ wtasks[k].path # <<>>
          /\ ~CanList(wtasks[k].path)
          /\ wtasks[k].pc = "done"

\* C26: the counter of the walk counts the tasks that have not finished (it
\* is incremented when a task is started and decremented once when the task
\* ends, on every exit path); pathsChan is closed only when the counter is
\* zero and every task has finished, it is closed once and no task takes a
\* step afterwards; no task sends on the closed channel or otherwise panics.
C26_WalkCounterAndChannel ==
    /\ [](/\ wgWalk = Cardinality({k \in DOMAIN wtasks : wtasks[k].pc # "done"})
          /\ pathsClosed => wgWalk = 0 /\ \A k \in DOMAIN wtasks : wtasks[k].pc = "done"
          /\ mainpc = "walked" => pathsClosed
          /\ ~panicked)
    /\ [][pathsClosed => pathsClosed' /\ wtasks' = wtasks /\ wgWalk' = wgWalk]_vars

\* the walk has returned a manifest after several tasks ran, on a tree with
\* a directory that cannot be listed
C26_Witness ==
    /\ mainpc = "walked"
    /\ pathsClosed
    /\ Len(wtasks) >= 2
    /\ fs.unreadable # {}
    /\ Len(filepaths) >= 1

----------------------------------------------------------------------------
(* inferPackageManager called a second time with the same path on the     *)
(* same file system: the first result is kept in previous.                *)

InferAgain ==
    /\ mainpc = "runScript"
    /\ run.pc = "exec"
    /\ ~previous.known
    /\ previous' = [known |-> TRUE, packageManager |-> run.packageManager]
    /\ run' = [run EXCEPT !.pc = "infer", !.dir = ManifestDir, !.packageManager = ""]
    /\ UNCHANGED <<fs, mainpc, walkVars, extractVars, located, sync, stdout,
                   exitCode, find, panicked>>

NextInferTwice == MainNext \/ InferAgain

SpecInferTwice == InitMain /\ [][NextInferTwice]_vars

\* C27: for a fixed file system and manifest path a second call of
\* inferPackageManager returns the same package manager as the first, also
\* when a directory holds the lockfiles of two managers.
C27_InferDeterministic ==
    (previous.known /\ Inferred) => run.packageManager = previous.packageManager

----------------------------------------------------------------------------
(* The synchronous extractScriptsFromPackageJSON of the earlier variants   *)
(* (part_000, part_001): it calls itself for every workspace member, with  *)
(* no leaf flag.  sync is [pc, variant, stack, result]; a frame of the     *)
(* stack is [path, err, scripts, todo]: the manifest, whether the call     *)
(* returns an error, the scripts gathered so far and the calls still to    *)
(* make.  A call whose manifest is already being extracted further down    *)
(* the stack repeats the calls that led to it and never returns: the       *)
(* recursion grows until the runtime stops the program (stack overflow).   *)

\* if workspaces, ok := packageJSON["workspaces"].([]any); ok
SyncWorkspaces(packageJSON) ==
    LET workspaces == Lookup(packageJSON, "workspaces")
    IN  IF IsType(workspaces, "[]interface {}")
        THEN [i \in DOMAIN workspaces.a |-> workspaces.a[i].p]
        ELSE <<>>

\* the calls made for one workspace entry: for a glob, every match with a
\* package.json; else the entry's package.json when it exists; and then,
\* when the entry's path itself exists, its package.json (once more)
SyncEntryCalls(dir, workspace) ==
    LET workspacePath == JoinPattern(dir, workspace)
        again == IF Stat(workspacePath) THEN <<PackageJSON(workspacePath)>> ELSE <<>>
    IN  IF IsGlob(workspace)
        THEN IF GlobErr(workspacePath) THEN <<>>
             ELSE LET matches == Glob(workspacePath)
                  IN  SelectSeq([i \in DOMAIN matches |-> PackageJSON(matches[i])], Stat)
                      \o again
        ELSE (IF Stat(PackageJSON(workspacePath))
              THEN <<PackageJSON(workspacePath)>> ELSE <<>>) \o again

RECURSIVE SyncCalls(_, _)
SyncCalls(dir, workspaces) ==
    IF workspaces = <<>> THEN <<>>
    ELSE SyncEntryCalls(dir, Head(workspaces)) \o SyncCalls(dir, Tail(workspaces))

\* the frame of a call: the own scripts (keys: the order of the range over
\* scriptsMap) and the calls to make (pnpm: the order of the range over the
\* result of locatePnpmWorkspaces, in part_000 only)
SyncFrame(filePath, keys, pnpm) ==
    IF ~CanParse(filePath)
    THEN [path |-> filePath, err |-> TRUE, scripts |-> <<>>, todo |-> <<>>]
    ELSE LET packageJSON == fs.manifest[Dir(filePath)].doc
         IN  [path |-> filePath, err |-> FALSE,
              scripts |-> ScriptsOf(filePath, packageJSON, keys),
              todo |-> SyncCalls(Dir(filePath), SyncWorkspaces(packageJSON)) \o pnpm]

\* the frames a call of filePath can start with
SyncFrames(filePath, variant) ==
    LET scripts == IF CanParse(filePath)
                   THEN Lookup(fs.manifest[Dir(filePath)].doc, "scripts") ELSE JNil
        names == IF IsType(scripts, "map[string]interface {}") THEN DOMAIN scripts.m ELSE {}
        members == IF variant = "part_000" /\ CanParse(filePath)
                   THEN PnpmMembers(filePath) ELSE {}
    IN  {SyncFrame(filePath, keys, pnpm) : keys \in Perms(names), pnpm \in Perms(members)}

\* scripts, err := extractScriptsFromPackageJSON(filePath), for a manifest the walk found
SyncStart ==
    /\ sync.pc = "idle"
    /\ \E variant \in {"part_000", "part_001"} :
       \E d \in DOMAIN fs.manifest :
       \E frame \in SyncFrames(PackageJSON(d), variant) :
          sync' = [pc |-> "running", variant |-> variant, stack |-> <<frame>>, result |-> <<>>]
    /\ UNCHANGED <<fs, mainpc, walkVars, extractVars, located, previous, mainVars, panicked>>

\* the manifests being extracted by the calls on the stack
SyncActive == {sync.stack[i].path : i \in DOMAIN sync.stack}

\* workspaceScripts, err := extractScriptsFromPackageJSON(workspacePackageJSONPath)
SyncCall ==
    /\ sync.pc = "running"
    /\ LET n == Len(sync.stack)
           top == sync.stack[n]
       IN  /\ top.todo # <<>>
           /\ Head(top.todo) \notin SyncActive
           /\ \E frame \in SyncFrames(Head(top.todo), sync.variant) :
                 sync' = [sync EXCEPT !.stack =
                            Append([sync.stack EXCEPT ![n].todo = Tail(top.todo)], frame)]
    /\ UNCHANGED <<fs, mainpc, walkVars, extractVars, located, previous, mainVars, panicked>>

\* the same call for a manifest that is already being extracted: the
\* recursion does not end and the program is stopped on stack overflow
SyncOverflow ==
    /\ sync.pc = "running"
    /\ LET top == sync.stack[Len(sync.stack)]
       IN  top.todo # <<>> /\ Head(top.todo) \in SyncActive
    /\ sync' = [sync EXCEPT !.pc = "overflow"]
    /\ panicked' = TRUE
    /\ UNCHANGED <<fs, mainpc, walkVars, extractVars, located, previous, mainVars>>

\* return scripts, nil (or nil, err); the caller appends the scripts if err == nil
SyncReturn ==
    /\ sync.pc = "running"
    /\ LET n == Len(sync.stack)
           top == sync.stack[n]
       IN  /\ top.todo = <<>>
           /\ IF n = 1
              THEN sync' = [sync EXCEPT !.pc = "returned", !.stack = <<>>,
                                        !.result = top.scripts]
              ELSE sync' = [sync EXCEPT !.stack =
                              [SubSeq(sync.stack, 1, n - 1) EXCEPT
                                 ![n - 1].scripts = @ \o top.scripts]]
    /\ UNCHANGED <<fs, mainpc, walkVars, extractVars, located, previous, mainVars, panicked>>

SyncNext ==
    \/ SyncStart
    \/ SyncCall
    \/ SyncOverflow
    \/ SyncReturn

\* monorepos whose workspaces are declared in the array form: a root
\* manifest with at most MaxPatterns patterns in the field and the sibling
\* pnpm-workspace.yaml together, or pkgs/foo and pkgs/bar declaring members
SyncFileSystems ==
    UNION {{Rooted(sc, ArrayForm(p), pn, BarManifest) :
                sc \in RootScripts, pn \in PnpmFiles(MaxPatterns - Len(p))}
           : p \in SeqsUpTo(RootPatterns, MaxPatterns)}
    \cup UNION {{Rootless(ArrayForm(f), b, NoPnpm) :
                b \in {JNil, ArrayForm(<<<<"..", "foo">>>>)}}
           : f \in SeqsUpTo(FooPatterns, MaxPatterns)}
    \cup {[Rootless(JNil, JNil, NoPnpm) EXCEPT !.manifest[<<"pkgs", "bar">>] = BrokenManifest]}

InitSync == fs \in SyncFileSystems /\ WalkInit

SpecSync == InitSync /\ [][SyncNext]_vars

FairSpecSync == SpecSync /\ WF_vars(SyncNext)

\* C25: in the synchronous variants the extraction of a manifest returns for
\* every workspaces declaration, also when an entry resolves to the
\* manifest's own directory and when two manifests declare each other: the
\* recursion never runs away, and every call that is started returns.
C25_SyncExtractionTerminates ==
    /\ [](sync.pc # "overflow")
    /\ (sync.pc = "running") ~> (sync.pc = "returned")
====
